---- MODULE Spec2Model ----
(***************************************************************************)
(* Model of ilattice3-procgen: the overlap resolver (src/src/extent.rs),   *)
(* the graph utilities (src/src/graph.rs), the door geometry               *)
(* (src/src/room.rs) and the dungeon orchestrator                          *)
(* (src/src/map_types/dungeon.rs).                                         *)
(*                                                                         *)
(* Each algorithm has a specification of its own (SpecResolve, ...); the   *)
(* variables of the other algorithms are held at an idle value there.      *)
(*                                                                         *)
(* ilattice3's Extent is a record [min, sup]: the minimum corner and the   *)
(* local supremum (the size), both triples of integers.  A Direction is    *)
(* one of the six strings of ALL_DIRECTIONS.                               *)
(***************************************************************************)
EXTENDS Integers, Sequences, FiniteSets, TLC

VARIABLES
    rooms,      \* resolve_extent_overlaps: the slice of extents
    ri, rj,     \* resolve_extent_overlaps: the loop indices i and j (1-based)
    allSep,     \* resolve_extent_overlaps: all_rooms_separated
    rpc,        \* resolve_extent_overlaps: "idle" | "scan" | "done"
    passes,     \* resolve_extent_overlaps: full passes completed
    lastPush,   \* the last call of push_extents_apart: arguments and results
    pgraph,     \* prune_outer_nodes_to_reach_size: graph
    keepNodes,  \* the node set the acceptance predicate requires (keep_nodes)
    desiredSize,    \* prune_outer_nodes_to_reach_size: desired_size
    maxEdges,   \* max_edges_per_removed_node
    removedNodes,   \* removed_nodes
    todo,       \* the part of all_node_indices the for loop has yet to visit
    ppc,        \* prune_outer_nodes_to_reach_size: "idle" | "loop" | "returned"
    pstart,     \* the graph prune_outer_nodes_to_reach_size was called with
    padopted,   \* line 85 has run: the graph was replaced by a subgraph
    plast,      \* the last iteration of the for loop: what it did, to which
                \* node, and the graph before it
    ttree,      \* longest_path_in_tree: graph
    tpc,        \* longest_path_in_tree: "idle" | "first" | "second" |
                \* "returned" | "panicked"
    tfirst,     \* longest_path_in_tree: path, the result of the first search
    tpath,      \* longest_path_in_tree: the vector returned
    dr1, dr2,   \* get_door_able_extent_for_rooms: r1 and r2
    dpc,        \* get_door_able_extent_for_rooms: "idle" | "call" | "returned"
    dresult,    \* get_door_able_extent_for_rooms: the Option returned
    gconfig,    \* generate: self.room_graph, [num_rooms, path_length]
    gtries,     \* generate: calls of try_generate started
    gpc,        \* generate: "idle" | "loop" | "returned" | "panicked" |
                \* "unwound" (try_generate panicked) | "hung"
    glast,      \* the outcome of the last call of try_generate
    gencoder,   \* the encoder: the rooms whose voxels were written
    br1, br2,   \* try_generate_door_big_enough_between_rooms: r1 and r2
    bmin, bmax, \* min_door_dim and max_door_dim
    bpc,        \* try_generate_door_big_enough_between_rooms: "idle" | "call" |
                \* "returned"
    bdoor       \* the Option it returned

resolveVars == <<rooms, ri, rj, allSep, rpc, passes, lastPush>>

pruneVars == <<pgraph, keepNodes, desiredSize, maxEdges, removedNodes, todo, ppc,
               pstart, padopted, plast>>

treeVars == <<ttree, tpc, tfirst, tpath>>

doorVars == <<dr1, dr2, dpc, dresult>>

generateVars == <<gconfig, gtries, gpc, glast, gencoder>>

bigEnoughVars == <<br1, br2, bmin, bmax, bpc, bdoor>>

vars == <<resolveVars, pruneVars, treeVars, doorVars, generateVars, bigEnoughVars>>

\* what the steps of one algorithm leave alone: the other algorithms
exceptResolve == <<pruneVars, treeVars, doorVars, generateVars, bigEnoughVars>>

exceptPrune == <<resolveVars, treeVars, doorVars, generateVars, bigEnoughVars>>

exceptTree == <<resolveVars, pruneVars, doorVars, generateVars, bigEnoughVars>>

exceptDoor == <<resolveVars, pruneVars, treeVars, generateVars, bigEnoughVars>>

exceptGenerate == <<resolveVars, pruneVars, treeVars, doorVars, bigEnoughVars>>

exceptBigEnough == <<resolveVars, pruneVars, treeVars, doorVars, generateVars>>

-----------------------------------------------------------------------------
(* Points and extents (ilattice3) *)

Axes == {1, 2, 3}

Point(x, y, z) == <<x, y, z>>

PAdd(p, q) == [a \in Axes |-> p[a] + q[a]]

PSub(p, q) == [a \in Axes |-> p[a] - q[a]]

PScale(p, k) == [a \in Axes |-> p[a] * k]

Max2(a, b) == IF a >= b THEN a ELSE b

Min2(a, b) == IF a <= b THEN a ELSE b

\* Extent::from_min_and_local_supremum
Extent(min, sup) == [min |-> min, sup |-> sup]

\* Extent::get_world_supremum
WorldSup(e) == PAdd(e.min, e.sup)

\* Extent::intersection: the join of the minima and the meet of the suprema;
\* the local supremum is negative on an axis where the extents are apart
Intersection(e1, e2) ==
    LET lo == [a \in Axes |-> Max2(e1.min[a], e2.min[a])]
        hi == [a \in Axes |-> Min2(WorldSup(e1)[a], WorldSup(e2)[a])]
    IN  Extent(lo, PSub(hi, lo))

\* Extent::is_empty
IsEmpty(e) == \E a \in Axes : e.sup[a] <= 0

\* Extent + Point, Extent - Point: a translation
Translate(e, v) == Extent(PAdd(e.min, v), e.sup)

-----------------------------------------------------------------------------
(* Directions (ilattice3::normal) *)

ALL_DIRECTIONS == <<"PosX", "PosY", "PosZ", "NegX", "NegY", "NegZ">>

Directions == {ALL_DIRECTIONS[k] : k \in 1..6}

DirAxis(d) == IF d \in {"PosX", "NegX"} THEN 1
              ELSE IF d \in {"PosY", "NegY"} THEN 2 ELSE 3

\* Direction::is_negative
IsNegative(d) == d \in {"NegX", "NegY", "NegZ"}

\* Direction::negate
Negate(d) ==
    CASE d = "PosX" -> "NegX" [] d = "NegX" -> "PosX"
      [] d = "PosY" -> "NegY" [] d = "NegY" -> "PosY"
      [] d = "PosZ" -> "NegZ" [] d = "NegZ" -> "PosZ"

\* Point::from(Direction): the unit vector of a direction
DirVector(d) ==
    [a \in Axes |-> IF a = DirAxis(d) THEN (IF IsNegative(d) THEN -1 ELSE 1) ELSE 0]

\* Extent::penetrations(e1, e2): per direction d, how far e1 must move along d
\* to stop overlapping e2
Penetrations(e1, e2) ==
    [d \in Directions |->
        IF IsNegative(d)
        THEN WorldSup(e1)[DirAxis(d)] - e2.min[DirAxis(d)]
        ELSE WorldSup(e2)[DirAxis(d)] - e1.min[DirAxis(d)]]

\* DirectionIndex::min_vector: the directions of least penetration (the
\* library picks one of them)
MinDirections(pen) == {d \in Directions : \A e \in Directions : pen[d] <= pen[e]}

MinVector(pen, d) == PScale(DirVector(d), pen[d])

-----------------------------------------------------------------------------
(* src/src/extent.rs *)

\* a variant of push_extents_apart that pushes r2 the negative way
PushExtentsApartNegative(r1, r2, direction) ==
    LET push_v == MinVector(Penetrations(r1, r2), direction)
    IN  IF IsNegative(direction)
        THEN <<r1, Translate(r2, push_v)>>
        ELSE <<Translate(r1, push_v), r2>>

\* push_extents_apart, with the direction min_vector picked
PushExtentsApart(r1, r2, direction) ==
    LET push_v == MinVector(Penetrations(r1, r2), direction)
    IN  IF IsNegative(direction)
        THEN <<r1, Translate(r2, PScale(push_v, -1))>>
        ELSE <<Translate(r1, push_v), r2>>

\* resolve_extent_overlaps line 22-24: the pair at i, j intersects
Overlapping(r1, r2) == ~IsEmpty(Intersection(r1, r2))

-----------------------------------------------------------------------------
(* petgraph's StableGraph<N, E, Undirected>                                *)
(*                                                                         *)
(* A graph is a record [w, e, free, slots]: w maps each occupied node      *)
(* index to its weight, e is the set of edges (each a set of two node      *)
(* indices; the edge weights of the room graph are ()), free is the list   *)
(* of vacant node slots (the next add_node takes its head) and slots is    *)
(* the length of the node table.                                           *)

Graph(w, e, free, slots) == [w |-> w, e |-> e, free |-> free, slots |-> slots]

\* StableGraph::node_count
NodeCount(g) == Cardinality(DOMAIN g.w)

\* StableGraph::contains_node
ContainsNode(g, n) == n \in DOMAIN g.w

\* the members of a set of integers in ascending order
SortedSeq(S) ==
    [i \in 1..Cardinality(S) |->
        CHOOSE x \in S : Cardinality({y \in S : y < x}) = i - 1]

\* the members of a set of integers in descending order
DescendingSeq(S) ==
    [i \in 1..Cardinality(S) |->
        CHOOSE x \in S : Cardinality({y \in S : y > x}) = i - 1]

\* StableGraph::node_indices().collect(): the occupied indices in ascending order
NodeIndices(g) == SortedSeq(DOMAIN g.w)

\* StableGraph::edges(n): the edges at n; none when the slot of n is vacant
EdgesOf(g, n) == IF ContainsNode(g, n) THEN {ed \in g.e : n \in ed} ELSE {}

Neighbors(g, n) == {m \in DOMAIN g.w : {n, m} \in g.e /\ m # n}

\* StableGraph::remove_node: the slot of n becomes the head of the free list
RemoveNode(g, n) ==
    Graph([m \in DOMAIN g.w \ {n} |-> g.w[m]], g.e \ EdgesOf(g, n),
          <<n>> \o g.free, g.slots)

\* a variant of add_node that never takes a vacant slot
AddNodeIndexFresh(g) == g.slots

\* the index StableGraph::add_node gives the new node
AddNodeIndex(g) == IF g.free # <<>> THEN Head(g.free) ELSE g.slots

\* StableGraph::add_node
AddNode(g, weight) ==
    LET idx == AddNodeIndex(g)
    IN  Graph([m \in DOMAIN g.w \cup {idx} |-> IF m = idx THEN weight ELSE g.w[m]],
              g.e,
              IF g.free # <<>> THEN Tail(g.free) ELSE g.free,
              IF g.free # <<>> THEN g.slots ELSE g.slots + 1)

\* StableGraph::add_edge
AddEdge(g, a, b) == Graph(g.w, g.e \cup {{a, b}}, g.free, g.slots)

\* StableGraph::add_edge for each edge of a set
AddEdges(g, eds) == Graph(g.w, g.e \cup eds, g.free, g.slots)

\* the nodes with at least one edge
Touched(g) == {n \in DOMAIN g.w : \E ed \in g.e : n \in ed}

\* no edge leaves the node set S
Closed(g, S) == \A ed \in g.e : (ed \cap S # {}) => (ed \subseteq S)

\* the connected component of node n: the least closed set n is in
Component(g, n) ==
    IF n \notin Touched(g) THEN {n}
    ELSE {m \in Touched(g) :
             \A S \in SUBSET Touched(g) : (n \in S /\ Closed(g, S)) => m \in S}

LeastOf(S) == CHOOSE x \in S : \A y \in S : x <= y

\* petgraph::algo::tarjan_scc on an undirected graph: the connected
\* components, in the order the search finishes them, that is by their
\* least node index
TarjanScc(g) ==
    LET comps == {Component(g, n) : n \in DOMAIN g.w}
    IN  [i \in 1..Cardinality(comps) |->
            CHOOSE c \in comps :
                Cardinality({d \in comps : LeastOf(d) < LeastOf(c)}) = i - 1]

\* Iterator::max_by_key(|c| c.len()): the last of the largest elements
MaxByLen(comps) ==
    LET k == CHOOSE i \in 1..Len(comps) :
                 /\ \A j \in 1..Len(comps) : Cardinality(comps[j]) <= Cardinality(comps[i])
                 /\ \A j \in (i + 1)..Len(comps) : Cardinality(comps[j]) < Cardinality(comps[i])
    IN  comps[k]

-----------------------------------------------------------------------------
(* src/src/graph.rs *)

\* a variant whose node filter keeps every node
InducedSubgraphWhole(g, nodes) == g

\* induced_subgraph: StableGraph::filter_map keeps the node indices; the
\* dropped slots and the ones already vacant make up the new free list
InducedSubgraph(g, nodes) ==
    LET keep == DOMAIN g.w \cap nodes
    IN  Graph([m \in keep |-> g.w[m]],
              {ed \in g.e : ed \subseteq keep},
              DescendingSeq((0..(g.slots - 1)) \ keep),
              g.slots)

NoGraph == Graph(<<>>, {}, <<>>, 0)

\* the member of a singleton set
TheOne(S) == CHOOSE x \in S : TRUE

\* largest_connected_subgraph: [some, g], Some iff there are several components
LargestConnectedSubgraph(g) ==
    TheOne({
        IF Len(components) > 1
        THEN [some |-> TRUE,
              g |-> TheOne({InducedSubgraph(g, biggest_component)
                            : biggest_component \in {MaxByLen(components)}})]
        ELSE [some |-> FALSE, g |-> NoGraph]
        : components \in {TarjanScc(g)} })

\* an acceptance predicate that accepts every graph
AcceptAlways(g, keep_nodes) == TRUE

\* accept_fn of prune_rooms_to_desired_size: every node of keep_nodes is in
\* the graph after the removal
AcceptFn(g, keep_nodes) == \A n \in keep_nodes : ContainsNode(g, n)

\* the body of the for loop of prune_outer_nodes_to_reach_size for node n,
\* after the size test: [g, removed], the graph it leaves and whether it
\* committed a removal.  Each local of the loop body (edges, the graph after
\* remove_node, the largest connected subgraph, check_graph) is bound once,
\* as the member of a singleton set.
VisitNode(g, keep_nodes, max_edges, n) ==
    TheOne({
        IF Cardinality(edges) # max_edges
        THEN [g |-> g, removed |-> FALSE]
        ELSE TheOne({ TheOne({ TheOne({
                 IF AcceptFn(check_graph, keep_nodes)
                 THEN [g |-> check_graph, removed |-> TRUE]
                 ELSE [g |-> AddEdges(AddNode(cut, g.w[n]), edges),
                       removed |-> FALSE]
                 : check_graph \in {IF sub.some THEN sub.g ELSE cut} })
                 : sub \in {LargestConnectedSubgraph(cut)} })
                 : cut \in {RemoveNode(g, n)} })
        : edges \in {EdgesOf(g, n)} })

-----------------------------------------------------------------------------
(* Bounds and inputs of the overlap resolver *)

NumExtents == 3

\* corners and cube sides the candidate extents are drawn from
ExtentCorners == {Point(0, 0, 0), Point(1, 0, 0), Point(0, 1, 1)}

ExtentSides == {1, 2}

ExtentPool == {Extent(c, Point(s, s, s)) : c \in ExtentCorners, s \in ExtentSides}

\* every push moves an extent by at most the largest side; a coordinate past
\* this cap means the extents keep chasing one another
CoordCap == 2 + 4 * NumExtents * NumExtents

WithinCap == \A k \in 1..Len(rooms) : \A a \in Axes :
                 rooms[k].min[a] >= -CoordCap /\ rooms[k].min[a] <= CoordCap

NoPush == [valid |-> FALSE, r1 |-> Extent(Point(0, 0, 0), Point(0, 0, 0)),
           r2 |-> Extent(Point(0, 0, 0), Point(0, 0, 0)),
           o1 |-> Extent(Point(0, 0, 0), Point(0, 0, 0)),
           o2 |-> Extent(Point(0, 0, 0), Point(0, 0, 0))]

-----------------------------------------------------------------------------
(* resolve_extent_overlaps as a state machine: one step per pair visited *)

\* a variant of the nested loops whose inner loop stops one short
NextPairShort(i, j, n) == IF j < n - 1 THEN <<i, j + 1>> ELSE <<i + 1, i + 2>>

\* the pair the nested for loops visit after (i, j); j past the end of the
\* slice means the pass is over
NextPair(i, j, n) == IF j < n THEN <<i, j + 1>> ELSE <<i + 1, i + 2>>

PairInRange == ri < rj /\ rj <= Len(rooms)

\* no call of try_generate yet
NoAttempt == [kind |-> "idle", wrote |-> {}, spawn |-> {}]

\* the state of a procedure that is not running
IdleResolve ==
    /\ rooms = <<>>
    /\ ri = 0
    /\ rj = 0
    /\ allSep = TRUE
    /\ rpc = "idle"
    /\ passes = 0
    /\ lastPush = NoPush

IdlePrune ==
    /\ pgraph = NoGraph
    /\ keepNodes = {}
    /\ desiredSize = 0
    /\ maxEdges = 0
    /\ removedNodes = FALSE
    /\ todo = <<>>
    /\ ppc = "idle"
    /\ pstart = NoGraph
    /\ padopted = FALSE
    /\ plast = [kind |-> "none", n |-> 0, before |-> NoGraph]

IdleTree ==
    /\ ttree = NoGraph
    /\ tpc = "idle"
    /\ tfirst = <<>>
    /\ tpath = <<>>

IdleDoor ==
    /\ dr1 = Extent(Point(0, 0, 0), Point(0, 0, 0))
    /\ dr2 = Extent(Point(0, 0, 0), Point(0, 0, 0))
    /\ dpc = "idle"
    /\ dresult = [some |-> FALSE]

IdleGenerate ==
    /\ gconfig = [num_rooms |-> 0, path_length |-> 0]
    /\ gtries = 0
    /\ gpc = "idle"
    /\ glast = NoAttempt
    /\ gencoder = {}

IdleBigEnough ==
    /\ br1 = Extent(Point(0, 0, 0), Point(0, 0, 0))
    /\ br2 = Extent(Point(0, 0, 0), Point(0, 0, 0))
    /\ bmin = 0
    /\ bmax = 0
    /\ bpc = "idle"
    /\ bdoor = [some |-> FALSE]

InitResolve ==
    /\ rooms \in [1..NumExtents -> ExtentPool]
    /\ ri = 1
    /\ rj = 2
    /\ allSep = TRUE
    /\ rpc = "scan"
    /\ passes = 0
    /\ lastPush = NoPush
    /\ IdlePrune /\ IdleTree /\ IdleDoor /\ IdleGenerate /\ IdleBigEnough

\* lines 21-25: the pair does not intersect, continue
SkipPair ==
    /\ rpc = "scan"
    /\ PairInRange
    /\ ~Overlapping(rooms[ri], rooms[rj])
    /\ ri' = NextPair(ri, rj, Len(rooms))[1]
    /\ rj' = NextPair(ri, rj, Len(rooms))[2]
    /\ UNCHANGED <<rooms, allSep, rpc, passes, lastPush>>
    /\ UNCHANGED exceptResolve

\* lines 28-32: the pair intersects and is pushed apart
PushPair ==
    /\ rpc = "scan"
    /\ PairInRange
    /\ Overlapping(rooms[ri], rooms[rj])
    /\ WithinCap
    /\ \E d \in MinDirections(Penetrations(rooms[ri], rooms[rj])) :
          LET out == PushExtentsApart(rooms[ri], rooms[rj], d)
          IN  /\ rooms' = [rooms EXCEPT ![ri] = out[1], ![rj] = out[2]]
              /\ lastPush' = [valid |-> TRUE, r1 |-> rooms[ri], r2 |-> rooms[rj],
                              o1 |-> out[1], o2 |-> out[2]]
    /\ allSep' = FALSE
    /\ ri' = NextPair(ri, rj, Len(rooms))[1]
    /\ rj' = NextPair(ri, rj, Len(rooms))[2]
    /\ UNCHANGED <<rpc, passes>>
    /\ UNCHANGED exceptResolve

\* lines 36-38 with all_rooms_separated set: break
EndPassBreak ==
    /\ rpc = "scan"
    /\ ~PairInRange
    /\ allSep
    /\ rpc' = "done"
    /\ passes' = passes + 1
    /\ UNCHANGED <<rooms, ri, rj, allSep, lastPush>>
    /\ UNCHANGED exceptResolve

\* lines 16-18 after a pass that adjusted a pair: the next pass
EndPassRepeat ==
    /\ rpc = "scan"
    /\ ~PairInRange
    /\ ~allSep
    /\ allSep' = TRUE
    /\ ri' = 1
    /\ rj' = 2
    /\ passes' = passes + 1
    /\ UNCHANGED <<rooms, rpc, lastPush>>
    /\ UNCHANGED exceptResolve

NextResolve == SkipPair \/ PushPair \/ EndPassBreak \/ EndPassRepeat

SpecResolve ==
    /\ InitResolve
    /\ [][NextResolve]_vars
    /\ WF_vars(NextResolve)

-----------------------------------------------------------------------------
(* Claims about the overlap resolver *)

PairwiseDisjoint ==
    \A i \in 1..Len(rooms) : \A j \in 1..Len(rooms) :
        i < j => IsEmpty(Intersection(rooms[i], rooms[j]))

\* C1: resolve_extent_overlaps reaches a pass with zero adjustments and
\* returns, and on return every pair of extents has an empty intersection.
C1_ResolveConverges ==
    /\ <>(rpc = "done")
    /\ [](rpc = "done" => PairwiseDisjoint)

\* a run that needed pushes in at least two passes before the clean pass
C1_Witness == rpc = "done" /\ passes >= 3 /\ PairwiseDisjoint

\* overlap depth of r1 and r2 along axis a, measured either way
Depths(r1, r2) ==
    {WorldSup(r2)[a] - r1.min[a] : a \in Axes} \cup
    {WorldSup(r1)[a] - r2.min[a] : a \in Axes}

LeastDepth(r1, r2) ==
    CHOOSE p \in Depths(r1, r2) : \A q \in Depths(r1, r2) : p <= q

\* extent o is extent r moved by p > 0 the positive way along one axis on
\* which the overlap depth of r1 and r2 is p
MovedPositive(r, o, p, r1, r2) ==
    /\ o.sup = r.sup
    /\ p > 0
    /\ \E a \in Axes :
          /\ o.min[a] = r.min[a] + p
          /\ \A b \in Axes \ {a} : o.min[b] = r.min[b]
          /\ p \in {WorldSup(r2)[a] - r1.min[a], WorldSup(r1)[a] - r2.min[a]}

\* C10: push_extents_apart moves exactly one of two intersecting extents,
\* along a minimum-penetration axis, by the penetration, the positive way,
\* and the results do not intersect (the debug_assert holds).
C10_PushApartPost ==
    lastPush.valid =>
        LET p == LeastDepth(lastPush.r1, lastPush.r2)
        IN  /\ \/ /\ lastPush.o1 = lastPush.r1
                  /\ MovedPositive(lastPush.r2, lastPush.o2, p, lastPush.r1, lastPush.r2)
               \/ /\ lastPush.o2 = lastPush.r2
                  /\ MovedPositive(lastPush.r1, lastPush.o1, p, lastPush.r1, lastPush.r2)
            /\ IsEmpty(Intersection(lastPush.o1, lastPush.o2))

\* a push that moved the second extent, and one that moved the first
C10_Witness ==
    /\ lastPush.valid
    /\ lastPush.o1 = lastPush.r1
    /\ lastPush.o2 # lastPush.r2
    /\ IsEmpty(Intersection(lastPush.o1, lastPush.o2))

-----------------------------------------------------------------------------
(* Bounds and inputs of the pruning *)

\* the rooms that may have doors, and the most doors the door graph has
NumNodes == 4

MaxDoors == 4

AllEdges == {{a, b} : a, b \in 0..(NumNodes - 1)} \ {{a} : a \in 0..(NumNodes - 1)}

\* generate_door_graph: node i carries room i; the doors are the edges
DoorGraph(eds) == Graph([i \in 0..(NumNodes - 1) |-> i], eds, <<>>, NumNodes)

\* a door graph of six rooms: the ring of rooms 0, 1, 2 and the row of rooms
\* 2, 3, 4, 5
RingAndRow ==
    Graph([i \in 0..5 |-> i],
          {{0, 1}, {0, 2}, {1, 2}, {2, 3}, {3, 4}, {4, 5}}, <<>>, 6)

\* the door graphs pruning is run on: every graph of NumNodes rooms with
\* MaxDoors doors or fewer, and the ring and row
DoorGraphs ==
    {DoorGraph(eds) : eds \in {x \in SUBSET AllEdges : Cardinality(x) <= MaxDoors}}
        \cup {RingAndRow}

\* try_generate lines 137-144: the door graph, or its largest component
ConnectedPart(g) ==
    LET sub == LargestConnectedSubgraph(g) IN IF sub.some THEN sub.g ELSE g

\* a threshold no node's edge count can equal; the code counts on from there
\* with no effect on what the passes do
ThresholdCap(g) == g.slots

-----------------------------------------------------------------------------
(* prune_outer_nodes_to_reach_size as a state machine: one step per         *)
(* iteration of the for loop, one per end of a pass                         *)

InitPrune ==
    /\ \E g \in DoorGraphs :
          /\ pgraph = ConnectedPart(g)
          /\ pstart = ConnectedPart(g)
    /\ padopted = FALSE
    /\ keepNodes \in SUBSET (DOMAIN pgraph.w)
    /\ desiredSize \in 0..NodeCount(pgraph)
    /\ maxEdges = 1
    /\ removedNodes = FALSE
    /\ todo = NodeIndices(pgraph)
    /\ ppc = "loop"
    /\ plast = [kind |-> "none", n |-> 0, before |-> NoGraph]
    /\ IdleResolve /\ IdleTree /\ IdleDoor /\ IdleGenerate /\ IdleBigEnough

\* lines 64-66: the graph is small enough, return
\* lines 84-86: a committed removal of n replaces the graph by a subgraph
Adopts(g, n) == LargestConnectedSubgraph(RemoveNode(g, n)).some

PruneReturn ==
    /\ ppc = "loop"
    /\ todo # <<>>
    /\ NodeCount(pgraph) <= desiredSize
    /\ ppc' = "returned"
    /\ UNCHANGED <<pgraph, keepNodes, desiredSize, maxEdges, removedNodes, todo,
                   pstart, padopted, plast>>
    /\ UNCHANGED exceptPrune

\* lines 68-72 with the edge count off the threshold: the next node
PruneSkip ==
    /\ ppc = "loop"
    /\ todo # <<>>
    /\ NodeCount(pgraph) > desiredSize
    /\ Cardinality(EdgesOf(pgraph, Head(todo))) # maxEdges
    /\ pgraph' = VisitNode(pgraph, keepNodes, maxEdges, Head(todo)).g
    /\ todo' = Tail(todo)
    /\ plast' = [kind |-> "skip", n |-> Head(todo), before |-> pgraph]
    /\ UNCHANGED <<keepNodes, desiredSize, maxEdges, removedNodes, ppc, pstart, padopted>>
    /\ UNCHANGED exceptPrune

\* lines 73-87: the removal is accepted and committed
PruneCommit ==
    /\ ppc = "loop"
    /\ todo # <<>>
    /\ NodeCount(pgraph) > desiredSize
    /\ Cardinality(EdgesOf(pgraph, Head(todo))) = maxEdges
    /\ VisitNode(pgraph, keepNodes, maxEdges, Head(todo)).removed
    /\ pgraph' = VisitNode(pgraph, keepNodes, maxEdges, Head(todo)).g
    /\ removedNodes' = TRUE
    /\ padopted' = (padopted \/ Adopts(pgraph, Head(todo)))
    /\ todo' = Tail(todo)
    /\ plast' = [kind |-> "commit", n |-> Head(todo), before |-> pgraph]
    /\ UNCHANGED <<keepNodes, desiredSize, maxEdges, ppc, pstart>>
    /\ UNCHANGED exceptPrune

\* lines 73-83 and 88-94: the removal is rejected and reverted
PruneRollback ==
    /\ ppc = "loop"
    /\ todo # <<>>
    /\ NodeCount(pgraph) > desiredSize
    /\ Cardinality(EdgesOf(pgraph, Head(todo))) = maxEdges
    /\ ~VisitNode(pgraph, keepNodes, maxEdges, Head(todo)).removed
    /\ pgraph' = VisitNode(pgraph, keepNodes, maxEdges, Head(todo)).g
    /\ todo' = Tail(todo)
    /\ plast' = [kind |-> "rollback", n |-> Head(todo), before |-> pgraph]
    /\ UNCHANGED <<keepNodes, desiredSize, maxEdges, removedNodes, ppc, pstart, padopted>>
    /\ UNCHANGED exceptPrune

\* lines 60-62 after a pass that removed a node: the next pass, same threshold
PruneNextPass ==
    /\ ppc = "loop"
    /\ todo = <<>>
    /\ removedNodes
    /\ removedNodes' = FALSE
    /\ todo' = NodeIndices(pgraph)
    /\ UNCHANGED <<pgraph, keepNodes, desiredSize, maxEdges, ppc, pstart, padopted, plast>>
    /\ UNCHANGED exceptPrune

\* lines 98-100 and 60-62: no node was removed, the threshold goes up
PruneRaiseThreshold ==
    /\ ppc = "loop"
    /\ todo = <<>>
    /\ ~removedNodes
    /\ maxEdges' = Min2(maxEdges + 1, ThresholdCap(pgraph))
    /\ todo' = NodeIndices(pgraph)
    /\ UNCHANGED <<pgraph, keepNodes, desiredSize, removedNodes, ppc, pstart, padopted, plast>>
    /\ UNCHANGED exceptPrune

NextPrune ==
    \/ PruneReturn
    \/ PruneSkip
    \/ PruneCommit
    \/ PruneRollback
    \/ PruneNextPass
    \/ PruneRaiseThreshold

SpecPrune ==
    /\ InitPrune
    /\ [][NextPrune]_vars
    /\ WF_vars(NextPrune)

-----------------------------------------------------------------------------
(* Claims about the pruning *)

\* C2: every node the acceptance predicate requires that was in the graph
\* before pruning is in the graph, under the same index and with the same
\* room, after every iteration of the loop and on return.
C2_ProtectedNodesKept ==
    ppc \in {"loop", "returned"} =>
        \A n \in keepNodes \cap DOMAIN pstart.w :
            n \in DOMAIN pgraph.w /\ pgraph.w[n] = pstart.w[n]

\* a protected node was tentatively removed and put back, another node was
\* removed for good
C2_Witness ==
    /\ plast.kind = "rollback"
    /\ plast.n \in keepNodes
    /\ plast.n \in DOMAIN pgraph.w
    /\ NodeCount(pgraph) < NodeCount(pstart)

\* C3: the graph pruning leaves never has fewer nodes than the target.
C3_NeverBelowTarget == ppc \in {"loop", "returned"} => NodeCount(pgraph) >= desiredSize

\* C4: prune_outer_nodes_to_reach_size returns.
C4_PruneReturns == <>(ppc = "returned")

\* C11: after a removal the acceptance predicate rejected, the graph has the
\* node indices, the weights and the edges it had before the removal, also
\* when a subgraph was adopted earlier.
C11_RollbackExact ==
    plast.kind = "rollback" =>
        /\ DOMAIN pgraph.w = DOMAIN plast.before.w
        /\ \A n \in DOMAIN pgraph.w : pgraph.w[n] = plast.before.w[n]
        /\ pgraph.e = plast.before.e
        /\ plast.n \in DOMAIN pgraph.w

\* a node with edges was removed and put back after a subgraph was adopted
C11_Witness ==
    /\ plast.kind = "rollback"
    /\ padopted
    /\ EdgesOf(pgraph, plast.n) # {}
    /\ pgraph.free # <<>>

\* no part of the nodes of g is cut off from the rest: every non-empty proper
\* subset of the nodes has an edge that leaves it
Connected(g) ==
    \A part \in SUBSET (DOMAIN g.w) :
        (part # {} /\ part # DOMAIN g.w) =>
            \E ed \in g.e : ed \cap part # {} /\ ed \ part # {}

\* the pairs of rooms the edges of g join: the keys under which
\* collect_doors_from_room_graph looks the doors up
DoorKeys(g) == {{g.w[n] : n \in ed} : ed \in g.e}

\* C13: when the graph prune_outer_nodes_to_reach_size is given is connected,
\* the graph is connected after every iteration of its loop; its nodes are
\* nodes of the given graph with the rooms they had, its edges join nodes it
\* has, and each edge joins two rooms for which the given graph has a door,
\* so the rooms written from the graph it returns reach one another through
\* doors and every door looked up is in the symmetric map.
C13_StaysConnected ==
    Connected(pstart) =>
        /\ Connected(pgraph)
        /\ \A n \in DOMAIN pgraph.w :
               n \in DOMAIN pstart.w /\ pgraph.w[n] = pstart.w[n]
        /\ \A ed \in pgraph.e : ed \subseteq DOMAIN pgraph.w
        /\ DoorKeys(pgraph) \subseteq DoorKeys(pstart)

\* pruning returned several rooms after a removal that cut the graph in two
\* and a removal that was reverted
C13_Witness ==
    /\ ppc = "returned"
    /\ padopted
    /\ pgraph.free # <<>>
    /\ NodeCount(pgraph) >= 3
    /\ NodeCount(pgraph) < NodeCount(pstart)
    /\ Cardinality(pgraph.e) >= 2

-----------------------------------------------------------------------------
(* longest_path_to_point_in_tree and longest_path_in_tree (src/src/graph.rs) *)

\* NodeIndex::end(): the largest index there is (u32::MAX in petgraph, the
\* largest integer of the model here), the index of no node
NodeIndexEnd == 2147483647

\* the largest tree the searches are run on
MaxTreeNodes == 5

\* the neighbours of u in the order the search walks them.  On a tree every
\* order discovers the same tree edges.
NeighborSeq(g, u) == DescendingSeq(Neighbors(g, u))

\* petgraph::visit::depth_first_search below node u, which is discovered:
\* st is [seen, events], the nodes discovered and the TreeEdge(u, v) events
\* so far, and nbrs the neighbours of u still to look at
RECURSIVE DfsVisit(_, _, _, _)
DfsVisit(g, u, nbrs, st) ==
    IF nbrs = <<>> THEN st
    ELSE LET v == Head(nbrs)
         IN  IF v \in st.seen
             THEN DfsVisit(g, u, Tail(nbrs), st)
             ELSE DfsVisit(g, u, Tail(nbrs),
                      DfsVisit(g, v, NeighborSeq(g, v),
                          [seen |-> st.seen \cup {v},
                           events |-> Append(st.events, <<u, v>>)]))

\* the TreeEdge events of depth_first_search(graph, Some(target), ..)
TreeEdges(g, target) ==
    DfsVisit(g, target, NeighborSeq(g, target),
             [seen |-> {target}, events |-> <<>>]).events

\* predecessors after the search: vec![end; node_count] with
\* predecessors[v] = u for every TreeEdge(u, v), the last write standing
Predecessors(g, events) ==
    [i \in 0..(NodeCount(g) - 1) |->
        IF \E k \in 1..Len(events) : events[k][2] = i
        THEN LET last == CHOOSE k \in 1..Len(events) :
                     /\ events[k][2] = i
                     /\ \A m \in (k + 1)..Len(events) : events[m][2] # i
             IN  events[last][1]
        ELSE NodeIndexEnd]

\* successors after the search: successors[u] = v for every TreeEdge(u, v)
Successors(g, events) ==
    [i \in 0..(NodeCount(g) - 1) |->
        IF \E k \in 1..Len(events) : events[k][1] = i
        THEN LET last == CHOOSE k \in 1..Len(events) :
                     /\ events[k][1] = i
                     /\ \A m \in (k + 1)..Len(events) : events[m][1] # i
             IN  events[last][2]
        ELSE NodeIndexEnd]

\* a panic of the function, and a vector it returns
Panicked == [panic |-> TRUE, path |-> <<>>]

Returned(path) == [panic |-> FALSE, path |-> path]

\* lines 126-137, the inner loop: follow predecessors from next until the
\* target; indexing predecessors out of bounds panics
RECURSIVE WalkBack(_, _, _, _)
WalkBack(predecessors, target, next, path) ==
    IF next \notin DOMAIN predecessors THEN Panicked
    ELSE LET pred == predecessors[next]
         IN  IF pred = target
             THEN Returned(Append(path, pred))
             ELSE WalkBack(predecessors, target, pred, Append(path, pred))

\* lines 123-139, the for loop over no_succesors
RECURSIVE LongestWalk(_, _, _, _)
LongestWalk(predecessors, target, no_succesors, max_path) ==
    IF no_succesors = <<>> THEN Returned(max_path)
    ELSE LET i == Head(no_succesors)
             walk == WalkBack(predecessors, target, i, <<i>>)
         IN  IF walk.panic THEN Panicked
             ELSE LongestWalk(predecessors, target, Tail(no_succesors),
                      IF Len(walk.path) > Len(max_path)
                      THEN walk.path ELSE max_path)

IsNoSuccessor(successors, i) ==
    i \in DOMAIN successors => successors[i] = NodeIndexEnd

\* longest_path_to_point_in_tree
LongestPathToPointInTree(g, target) ==
    LET events == TreeEdges(g, target)
        predecessors == Predecessors(g, events)
        successors == Successors(g, events)
        IsLeaf(i) == IsNoSuccessor(successors, i)
        no_succesors == SelectSeq(NodeIndices(g), IsLeaf)
    IN  LongestWalk(predecessors, target, no_succesors, <<>>)

\* longest_path_in_tree
LongestPathInTree(g) ==
    IF NodeIndices(g) = <<>> THEN Panicked
    ELSE LET path == LongestPathToPointInTree(g, Head(NodeIndices(g)))
         IN  IF path.panic \/ path.path = <<>> THEN Panicked
             ELSE LongestPathToPointInTree(g, Head(path.path))

\* the graphs the searches are run on: every tree on the nodes 0..n-1
TreeOn(n, eds) == Graph([i \in 0..(n - 1) |-> i], eds, <<>>, n)

IsTree(g) ==
    /\ Cardinality(g.e) = NodeCount(g) - 1
    /\ Component(g, 0) = DOMAIN g.w

PairsBelow(n) == {{a, b} : a, b \in 0..(n - 1)} \ {{a} : a \in 0..(n - 1)}

InitTree ==
    /\ \E n \in 1..MaxTreeNodes : \E eds \in SUBSET PairsBelow(n) :
           /\ Cardinality(eds) = n - 1
           /\ IsTree(TreeOn(n, eds))
           /\ ttree = TreeOn(n, eds)
    /\ tpc = "first"
    /\ tfirst = <<>>
    /\ tpath = <<>>
    /\ IdleResolve /\ IdlePrune /\ IdleDoor /\ IdleGenerate /\ IdleBigEnough

\* lines 147-151: the first search, from the first node
TreeFirstSearch ==
    /\ tpc = "first"
    /\ NodeIndices(ttree) # <<>>
    /\ ~LongestPathToPointInTree(ttree, Head(NodeIndices(ttree))).panic
    /\ tfirst' = LongestPathToPointInTree(ttree, Head(NodeIndices(ttree))).path
    /\ tpc' = "second"
    /\ UNCHANGED <<ttree, tpath>>
    /\ UNCHANGED exceptTree

\* lines 147-151: the first search panics
TreeFirstSearchPanics ==
    /\ tpc = "first"
    /\ \/ NodeIndices(ttree) = <<>>
       \/ LongestPathToPointInTree(ttree, Head(NodeIndices(ttree))).panic
    /\ tpc' = "panicked"
    /\ UNCHANGED <<ttree, tfirst, tpath>>
    /\ UNCHANGED exceptTree

\* line 153: the second search, from the first node of path
TreeSecondSearch ==
    /\ tpc = "second"
    /\ LET second == IF tfirst = <<>> THEN Panicked
                      ELSE LongestPathToPointInTree(ttree, Head(tfirst))
       IN  /\ tpath' = second.path
           /\ tpc' = IF second.panic THEN "panicked" ELSE "returned"
    /\ UNCHANGED <<ttree, tfirst>>
    /\ UNCHANGED exceptTree

NextTree == TreeFirstSearch \/ TreeFirstSearchPanics \/ TreeSecondSearch

SpecTree == InitTree /\ [][NextTree]_vars

-----------------------------------------------------------------------------
(* Claims about the longest path *)

\* the sequences of distinct nodes joined by edges of g
IsSimplePath(g, path) ==
    /\ \A k \in 1..Len(path) : path[k] \in DOMAIN g.w
    /\ \A k, m \in 1..Len(path) : k # m => path[k] # path[m]
    /\ \A k \in 1..(Len(path) - 1) : {path[k], path[k + 1]} \in g.e

\* the largest number of nodes on a simple path of g
Diameter(g) ==
    CHOOSE d \in 1..NodeCount(g) :
        /\ \E path \in [1..d -> DOMAIN g.w] : IsSimplePath(g, path)
        /\ \A k \in (d + 1)..NodeCount(g) :
               \A path \in [1..k -> DOMAIN g.w] : ~IsSimplePath(g, path)

PathGraph5 == TreeOn(5, {{0, 1}, {1, 2}, {2, 3}, {3, 4}})

\* C5: on every non-empty tree longest_path_in_tree returns, and what it
\* returns is a simple path of the tree with as many nodes as the longest
\* simple path of the tree has; on the path graph 0-1-2-3-4 that is 5 nodes.
C5_LongestPathIsDiameter ==
    /\ tpc # "panicked"
    /\ tpc = "returned" =>
           /\ IsSimplePath(ttree, tpath)
           /\ Len(tpath) = Diameter(ttree)
           /\ ttree = PathGraph5 => Len(tpath) = 5

\* the same on the trees with two nodes or more
LongestPathOfLargerTree ==
    NodeCount(ttree) >= 2 => C5_LongestPathIsDiameter

-----------------------------------------------------------------------------
(* get_door_able_extent_for_rooms (src/src/room.rs) *)

\* the positive and the negative direction of an axis
PosDir(a) == ALL_DIRECTIONS[a]

NegDir(a) == ALL_DIRECTIONS[a + 3]

\* Extent::directional_grow: every face moves outwards by the amount its
\* direction has in grow_by (inwards when the amount is negative)
DirectionalGrow(e, grow_by) ==
    LET lo == [a \in Axes |-> e.min[a] - grow_by[NegDir(a)]]
        hi == [a \in Axes |-> WorldSup(e)[a] + grow_by[PosDir(a)]]
    IN  Extent(lo, PSub(hi, lo))

None == [some |-> FALSE]

Some(extent, dir) == [some |-> TRUE, extent |-> extent, dir |-> dir]

\* a variant that goes on with one zero or more
SomeZero(zeroes) == Len(zeroes) >= 1

\* lines 57-59: the number of zeroes the function goes on with
OneZero(zeroes) == Len(zeroes) = 1

\* get_door_able_extent_for_rooms
GetDoorAbleExtentForRooms(r1, r2) ==
    LET pen == Penetrations(r1, r2)
        IsZero(d) == pen[d] = 0
        zeroes == SelectSeq(ALL_DIRECTIONS, IsZero)
    IN  IF ~OneZero(zeroes) THEN None
        ELSE LET dir == zeroes[1]
                 neg_dir == Negate(dir)
                 grow_by == [d \in Directions |->
                                IF d # dir /\ d # neg_dir THEN -1 ELSE 0]
                 r1_grow_by == [grow_by EXCEPT ![neg_dir] = 1]
                 r2_grow_by == [grow_by EXCEPT ![dir] = 1]
                 grown_r1 == DirectionalGrow(r1, r1_grow_by)
                 grown_r2 == DirectionalGrow(r2, r2_grow_by)
             IN  Some(Intersection(grown_r1, grown_r2), dir)

\* the rooms of the two tests of room.rs
TestRoom1 == Extent(Point(0, 0, 0), Point(4, 4, 4))

TestRoom2 == Extent(Point(0, 0, -4), Point(4, 4, 4))

TestRoom3 == Extent(Point(0, -4, -4), Point(4, 4, 4))

\* the rooms the function is called with: non-empty boxes
DoorOffsets == {-4, 0, 3}

DoorSides == {1, 4}

DoorRooms ==
    {Extent(Point(x, y, z), Point(sx, sy, sz)) :
        x \in {0}, y, z \in DoorOffsets, sx \in {4}, sy, sz \in DoorSides}

InitDoor ==
    /\ dr1 \in DoorRooms
    /\ dr2 \in {Translate(r, Point(x, 0, 0)) : r \in DoorRooms, x \in DoorOffsets}
    /\ dpc = "call"
    /\ dresult = None
    /\ IdleResolve /\ IdlePrune /\ IdleTree /\ IdleGenerate /\ IdleBigEnough

\* lines 46-60: no door-able extent
DoorAbleNone ==
    /\ dpc = "call"
    /\ ~GetDoorAbleExtentForRooms(dr1, dr2).some
    /\ dresult' = GetDoorAbleExtentForRooms(dr1, dr2)
    /\ dpc' = "returned"
    /\ UNCHANGED <<dr1, dr2>>
    /\ UNCHANGED exceptDoor

\* lines 46-83: a door-able extent and its direction
DoorAbleSome ==
    /\ dpc = "call"
    /\ GetDoorAbleExtentForRooms(dr1, dr2).some
    /\ dresult' = GetDoorAbleExtentForRooms(dr1, dr2)
    /\ dpc' = "returned"
    /\ UNCHANGED <<dr1, dr2>>
    /\ UNCHANGED exceptDoor

NextDoor == DoorAbleNone \/ DoorAbleSome

SpecDoor == InitDoor /\ [][NextDoor]_vars

-----------------------------------------------------------------------------
(* Claims about the door-able extent *)

\* r2 ends on axis a where r1 begins
Below(r2, r1, a) == WorldSup(r2)[a] = r1.min[a]

\* the axes along which the penetration of r1 and r2 is zero
ZeroAxes(r1, r2) == {a \in Axes : Below(r2, r1, a) \/ Below(r1, r2, a)}

\* the box two units thick about the plane r1 and r2 share on axis a, and on
\* the other axes what r1 and r2 have in common less one unit at either end
FaceRegion(r1, r2, a) ==
    LET plane == IF Below(r2, r1, a) THEN r1.min[a] ELSE r2.min[a]
        lo == [b \in Axes |->
                  IF b = a THEN plane - 1
                  ELSE Max2(r1.min[b], r2.min[b]) + 1]
        hi == [b \in Axes |->
                  IF b = a THEN plane + 1
                  ELSE Min2(WorldSup(r1)[b], WorldSup(r2)[b]) - 1]
    IN  Extent(lo, PSub(hi, lo))

\* C8: get_door_able_extent_for_rooms returns an extent iff the penetration
\* of r1 and r2 is zero along exactly one axis (not along two, a shared
\* edge, nor three, a shared corner); the extent is then what the rooms,
\* grown by 1 towards each other on that axis and shrunk by 1 on the four
\* other faces, have in common, and the direction is the one of zero
\* penetration; the 4x4x4 box at the origin and the same box 4 lower in z
\* give min [1, 1, -1], size [2, 2, 2] and PosZ.
C8_DoorAdjacency ==
    dpc = "returned" =>
        /\ dresult.some <=> Cardinality(ZeroAxes(dr1, dr2)) = 1
        /\ dresult.some =>
               \A a \in ZeroAxes(dr1, dr2) :
                   /\ dresult.extent = FaceRegion(dr1, dr2, a)
                   /\ dresult.dir = IF Below(dr2, dr1, a) THEN PosDir(a)
                                    ELSE NegDir(a)
        /\ (dr1 = TestRoom1 /\ dr2 = TestRoom2) =>
               dresult = Some(Extent(Point(1, 1, -1), Point(2, 2, 2)), "PosZ")
        /\ (dr1 = TestRoom1 /\ dr2 = TestRoom3) => dresult = None

\* the call of the first test of room.rs has returned
C8_Witness ==
    /\ dpc = "returned"
    /\ dr1 = TestRoom1
    /\ dr2 = TestRoom2
    /\ dresult.some
    /\ ~IsEmpty(dresult.extent)

-----------------------------------------------------------------------------
(* try_generate_door_big_enough_between_rooms (src/src/room.rs) *)

\* Normal::get_plane_span_info: the two axes u and v that span the plane
\* whose normal is axis n
PlaneSpan(n) == Axes \ {n}

\* sample_range: the two samples c1 and c2, the smaller one first
SampleRange(c1, c2) == IF c1 > c2 THEN <<c2, c1>> ELSE <<c1, c2>>

\* a variant that only clamps from above
ClampDoorSupUpper(len, min_door_dim, max_door_dim) == Min2(len, max_door_dim)

\* lines 120-125: .min(max_door_dim).max(min_door_dim)
ClampDoorSup(len, min_door_dim, max_door_dim) ==
    Max2(Min2(len, max_door_dim), min_door_dim)

\* Extent::is_subset
IsSubset(e1, e2) ==
    \A a \in Axes : /\ e2.min[a] <= e1.min[a]
                    /\ WorldSup(e1)[a] <= WorldSup(e2)[a]

\* lines 92-113: where the function stops before it samples, or "sample"
DoorStage(min_door_dim, r1, r2) ==
    LET able == GetDoorAbleExtentForRooms(r1, r2)
    IN  IF ~able.some THEN "not_door_able"
        ELSE IF IsEmpty(able.extent) THEN "empty"
        ELSE IF \E b \in PlaneSpan(DirAxis(able.dir)) :
                    able.extent.sup[b] < min_door_dim
             THEN "too_small"
        ELSE "sample"

\* lines 119-120: the pairs (c1, c2) sample_range may draw on the axes u and v
DoorSamples(extent, n) ==
    [PlaneSpan(n) -> {<<c1, c2>> :
        c1, c2 \in 0..(Max2(extent.sup[1], Max2(extent.sup[2], extent.sup[3])) - 1)}]

\* the samples are offsets from the minimum of the extent on their axis
InRange(extent, n, samples) ==
    \A b \in PlaneSpan(n) : /\ samples[b][1] < extent.sup[b]
                            /\ samples[b][2] < extent.sup[b]

\* lines 115-134: the door built from the samples
DoorFromSamples(min_door_dim, max_door_dim, extent, n, samples) ==
    LET range == [b \in PlaneSpan(n) |->
                     SampleRange(extent.min[b] + samples[b][1],
                                 extent.min[b] + samples[b][2])]
        door_min == [a \in Axes |-> IF a = n THEN extent.min[n]
                                    ELSE range[a][1]]
        door_sup == [a \in Axes |->
                        IF a = n THEN 2
                        ELSE ClampDoorSup(1 + range[a][2] - range[a][1],
                                          min_door_dim, max_door_dim)]
    IN  Extent(door_min, door_sup)

\* the doors the function can build for r1 and r2
Doors(min_door_dim, max_door_dim, r1, r2) ==
    LET able == GetDoorAbleExtentForRooms(r1, r2)
        n == DirAxis(able.dir)
    IN  {DoorFromSamples(min_door_dim, max_door_dim, able.extent, n, samples) :
            samples \in {s \in DoorSamples(able.extent, n) :
                            InRange(able.extent, n, s)}}

\* the largest door dimension asked for
MaxDoorDim == 3

BigEnoughSides == {4, 5}

BigEnoughOffsets ==
    {Point(0, 0, -4), Point(1, 0, -4), Point(3, 0, -4), Point(0, 0, 4),
     Point(4, 1, 0), Point(0, -4, -4), Point(0, 0, -5), Point(0, 0, -3)}

InitBigEnough ==
    /\ br1 \in {Extent(Point(0, 0, 0), Point(s, s, 4)) : s \in BigEnoughSides}
    /\ br2 \in {Extent(v, Point(s, 4, 4)) :
                   s \in BigEnoughSides, v \in BigEnoughOffsets}
    /\ bmin \in 0..MaxDoorDim
    /\ bmax \in 0..MaxDoorDim
    /\ bpc = "call"
    /\ bdoor = [some |-> FALSE]
    /\ IdleResolve /\ IdlePrune /\ IdleTree /\ IdleDoor /\ IdleGenerate

\* lines 92-96: no door-able extent
BigEnoughNotDoorAble ==
    /\ bpc = "call"
    /\ DoorStage(bmin, br1, br2) = "not_door_able"
    /\ bdoor' = [some |-> FALSE]
    /\ bpc' = "returned"
    /\ UNCHANGED <<br1, br2, bmin, bmax>>
    /\ UNCHANGED exceptBigEnough

\* lines 98-100: the door-able extent is empty
BigEnoughEmpty ==
    /\ bpc = "call"
    /\ DoorStage(bmin, br1, br2) = "empty"
    /\ bdoor' = [some |-> FALSE]
    /\ bpc' = "returned"
    /\ UNCHANGED <<br1, br2, bmin, bmax>>
    /\ UNCHANGED exceptBigEnough

\* lines 107-113: the extent is smaller than min_door_dim along u or v
BigEnoughTooSmall ==
    /\ bpc = "call"
    /\ DoorStage(bmin, br1, br2) = "too_small"
    /\ bdoor' = [some |-> FALSE]
    /\ bpc' = "returned"
    /\ UNCHANGED <<br1, br2, bmin, bmax>>
    /\ UNCHANGED exceptBigEnough

\* lines 115-138: the sampled door is a subset of the extent
BigEnoughDoor ==
    /\ bpc = "call"
    /\ DoorStage(bmin, br1, br2) = "sample"
    /\ \E door \in Doors(bmin, bmax, br1, br2) :
           /\ IsSubset(door, GetDoorAbleExtentForRooms(br1, br2).extent)
           /\ bdoor' = [some |-> TRUE, door |-> door]
    /\ bpc' = "returned"
    /\ UNCHANGED <<br1, br2, bmin, bmax>>
    /\ UNCHANGED exceptBigEnough

\* lines 115-141: the sampled door escapes the extent
BigEnoughEscapes ==
    /\ bpc = "call"
    /\ DoorStage(bmin, br1, br2) = "sample"
    /\ \E door \in Doors(bmin, bmax, br1, br2) :
           ~IsSubset(door, GetDoorAbleExtentForRooms(br1, br2).extent)
    /\ bdoor' = [some |-> FALSE]
    /\ bpc' = "returned"
    /\ UNCHANGED <<br1, br2, bmin, bmax>>
    /\ UNCHANGED exceptBigEnough

NextBigEnough ==
    \/ BigEnoughNotDoorAble
    \/ BigEnoughEmpty
    \/ BigEnoughTooSmall
    \/ BigEnoughDoor
    \/ BigEnoughEscapes

SpecBigEnough == InitBigEnough /\ [][NextBigEnough]_vars

-----------------------------------------------------------------------------
(* Claims about the sampled door *)

\* the cells of an extent along axis a
Span(e, a) == e.min[a]..(WorldSup(e)[a] - 1)

\* C12: when try_generate_door_big_enough_between_rooms returns a door and
\* min_door_dim <= max_door_dim, the rooms share exactly one face, every
\* cell of the door is a cell of the region about that face, the door is 2
\* thick along the normal of the face and between min_door_dim and
\* max_door_dim long on each of the two other axes; it returns no door when
\* the rooms do not share exactly one face, when the region is empty and
\* when the region is shorter than min_door_dim on one of the two other axes.
C12_DoorWithinBounds ==
    bpc = "returned" =>
        /\ (bdoor.some /\ bmin <= bmax) =>
               /\ Cardinality(ZeroAxes(br1, br2)) = 1
               /\ \A n \in ZeroAxes(br1, br2) :
                      /\ \A a \in Axes :
                             Span(bdoor.door, a) \subseteq
                                 Span(FaceRegion(br1, br2, n), a)
                      /\ bdoor.door.sup[n] = 2
                      /\ \A b \in Axes \ {n} :
                             /\ bmin <= bdoor.door.sup[b]
                             /\ bdoor.door.sup[b] <= bmax
        /\ Cardinality(ZeroAxes(br1, br2)) # 1 => ~bdoor.some
        /\ \A n \in ZeroAxes(br1, br2) :
               \/ IsEmpty(FaceRegion(br1, br2, n))
               \/ \E b \in Axes \ {n} : FaceRegion(br1, br2, n).sup[b] < bmin
               => ~bdoor.some

\* a door longer than one cell was returned for rooms whose region is longer
\* than the door
C12_Witness ==
    /\ bpc = "returned"
    /\ bdoor.some
    /\ 0 < bmin
    /\ bmin < bmax
    /\ \E n \in ZeroAxes(br1, br2) : \E b \in Axes \ {n} :
           /\ bdoor.door.sup[b] = bmin
           /\ bdoor.door.sup[b] < FaceRegion(br1, br2, n).sup[b]
           /\ bdoor.door.min[b] > FaceRegion(br1, br2, n).min[b]

-----------------------------------------------------------------------------
(* prune_outer_nodes_to_reach_size as a function, for its callers *)

\* lines 63-96, the for loop over the rest of all_node_indices: [returned, g,
\* removed_nodes]
RECURSIVE PrunePass(_, _, _, _, _, _)
PrunePass(g, keep_nodes, desired_size, max_edges, rest, removed_nodes) ==
    IF rest = <<>>
    THEN [returned |-> FALSE, g |-> g, removed_nodes |-> removed_nodes]
    ELSE IF NodeCount(g) <= desired_size
    THEN [returned |-> TRUE, g |-> g, removed_nodes |-> removed_nodes]
    ELSE LET visit == VisitNode(g, keep_nodes, max_edges, Head(rest))
         IN  PrunePass(visit.g, keep_nodes, desired_size, max_edges, Tail(rest),
                       removed_nodes \/ visit.removed)

\* lines 59-101, the loop: [hang, g].  A pass that removes nothing at a
\* threshold no node can have the edges for is followed by such passes only.
RECURSIVE PruneLoop(_, _, _, _)
PruneLoop(g, keep_nodes, desired_size, max_edges) ==
    LET pass == PrunePass(g, keep_nodes, desired_size, max_edges,
                          NodeIndices(g), FALSE)
    IN  IF pass.returned THEN [hang |-> FALSE, g |-> pass.g]
        ELSE IF pass.removed_nodes
        THEN PruneLoop(pass.g, keep_nodes, desired_size, max_edges)
        ELSE IF max_edges >= ThresholdCap(pass.g)
        THEN [hang |-> TRUE, g |-> pass.g]
        ELSE PruneLoop(pass.g, keep_nodes, desired_size, max_edges + 1)

\* prune_outer_nodes_to_reach_size
PruneOuterNodesToReachSize(g, keep_nodes, desired_size) ==
    PruneLoop(g, keep_nodes, desired_size, 1)

-----------------------------------------------------------------------------
(* try_generate and generate (src/src/map_types/dungeon.rs) *)

MAX_GENERATE_TRIES == 200

\* generate_room_candidates asks for 10 * num_rooms extents
CandidatesPerRoom == 10

\* the candidates near enough to others to get doors: rooms 0..MaxDoorRooms-1
MaxDoorRooms == 3

\* self.room_graph
Configs == [num_rooms : {1, 2}, path_length : 0..4]

\* generate_door_graph: a node per candidate, weighted with its index, and
\* an edge per door
RoomGraph(config, doors) ==
    Graph([i \in 0..(CandidatesPerRoom * config.num_rooms - 1) |-> i],
          doors, <<>>, CandidatesPerRoom * config.num_rooms)

\* the sets of doors try_generate_door_big_enough_between_rooms can give
DoorSets == SUBSET PairsBelow(MaxDoorRooms)

\* min_spanning_tree: the spanning trees of a connected graph, as edge sets
SpanningTrees(g) ==
    {t \in SUBSET g.e :
        /\ Cardinality(t) = NodeCount(g) - 1
        /\ \A n \in DOMAIN g.w :
               Component(Graph(g.w, t, g.free, g.slots), n) = DOMAIN g.w}

\* the index from_elements gives node n of g: nodes come in index order
Rank(g, n) == Cardinality({m \in DOMAIN g.w : m < n})

\* StableGraph::from_elements(min_spanning_tree(g)) for the tree t
FromElements(g, t) ==
    Graph([i \in 0..(NodeCount(g) - 1) |->
              g.w[CHOOSE n \in DOMAIN g.w : Rank(g, n) = i]],
          {{Rank(g, n) : n \in ed} : ed \in t}, <<>>, NodeCount(g))

\* choose_main_path: [kind, path], kind "some", "none" or "panic".  With
\* desired_len = 0 the bound desired_len - 1 of the slice is below zero.
ChooseMainPath(desired_len, mst) ==
    LET path == LongestPathInTree(mst)
    IN  IF path.panic THEN [kind |-> "panic", path |-> <<>>]
        ELSE IF Len(path.path) >= desired_len
        THEN IF desired_len - 1 < 0 THEN [kind |-> "panic", path |-> <<>>]
             ELSE [kind |-> "some",
                   path |-> [k \in 1..(desired_len - 1) |-> mst.w[path.path[k]]]]
        ELSE [kind |-> "none", path |-> <<>>]

\* keep_nodes of prune_rooms_to_desired_size
KeepNodes(main_path, room_graph) ==
    {n \in DOMAIN room_graph.w :
        \E k \in 1..Len(main_path) : main_path[k] = room_graph.w[n]}

\* collect_rooms_from_room_graph: the candidates fill_map_with_rooms writes
ChosenRooms(room_graph) == {room_graph.w[n] : n \in DOMAIN room_graph.w}

\* the results of try_generate: what it returns or how it ends, the rooms it
\* wrote to the encoder and the room of the spawn area
AttemptNone == [kind |-> "none", wrote |-> {}, spawn |-> {}]

AttemptPanic(wrote) == [kind |-> "panic", wrote |-> wrote, spawn |-> {}]

AttemptHang == [kind |-> "hang", wrote |-> {}, spawn |-> {}]

AttemptSome(wrote, room) == [kind |-> "some", wrote |-> wrote, spawn |-> {room}]

\* lines 147-168 of try_generate, for the connected room graph and the
\* spanning tree min_spanning_tree gave
GenerateFromTree(config, room_graph, t) ==
    LET mst == FromElements(room_graph, t)
        main_path == ChooseMainPath(config.path_length, mst)
    IN  IF main_path.kind = "panic" THEN AttemptPanic({})
        ELSE IF main_path.kind = "none" THEN AttemptNone
        ELSE LET pruned == PruneOuterNodesToReachSize(room_graph,
                               KeepNodes(main_path.path, room_graph),
                               config.num_rooms)
             IN  IF pruned.hang THEN AttemptHang
                 ELSE IF main_path.path = <<>>
                 THEN AttemptPanic(ChosenRooms(pruned.g))
                 ELSE AttemptSome(ChosenRooms(pruned.g),
                                  main_path.path[Len(main_path.path)])

\* try_generate, lines 113-168, for the doors generate_door_graph made: the
\* results it can have
TryGenerate(config, doors) ==
    LET door_graph == RoomGraph(config, doors)
        subgraph == LargestConnectedSubgraph(door_graph)
        room_graph == IF subgraph.some THEN subgraph.g ELSE door_graph
    IN  IF subgraph.some /\ NodeCount(subgraph.g) < config.num_rooms
        THEN {AttemptNone}
        ELSE {GenerateFromTree(config, room_graph, t) :
                  t \in SpanningTrees(room_graph)}

\* the results of try_generate under each configuration, per set of doors
AttemptOutcomes ==
    {[config |-> config, doors |-> doors, attempts |-> TryGenerate(config, doors)] :
        config \in Configs, doors \in DoorSets}

\* a variant of the bound that lets one more attempt in
TriesLeftInclusive(tries) == tries <= MAX_GENERATE_TRIES

\* line 172, the bound of the for loop
TriesLeft(tries) == tries < MAX_GENERATE_TRIES

InitGenerate ==
    /\ gconfig \in Configs
    /\ gtries = 0
    /\ gpc = "loop"
    /\ glast = NoAttempt
    /\ gencoder = {}
    /\ IdleResolve /\ IdlePrune /\ IdleTree /\ IdleDoor /\ IdleBigEnough

\* lines 172-176: try_generate returns None, the next attempt
TryGenerateNone ==
    /\ gpc = "loop"
    /\ TriesLeft(gtries)
    /\ \E run \in AttemptOutcomes : \E attempt \in run.attempts :
           /\ run.config = gconfig
           /\ attempt.kind = "none"
           /\ glast' = attempt
           /\ gencoder' = gencoder \cup attempt.wrote
    /\ gtries' = gtries + 1
    /\ UNCHANGED <<gconfig, gpc>>
    /\ UNCHANGED exceptGenerate

\* lines 172-175: try_generate returns Some(meta), generate returns meta
TryGenerateSome ==
    /\ gpc = "loop"
    /\ TriesLeft(gtries)
    /\ \E run \in AttemptOutcomes : \E attempt \in run.attempts :
           /\ run.config = gconfig
           /\ attempt.kind = "some"
           /\ glast' = attempt
           /\ gencoder' = gencoder \cup attempt.wrote
    /\ gtries' = gtries + 1
    /\ gpc' = "returned"
    /\ UNCHANGED gconfig
    /\ UNCHANGED exceptGenerate

\* line 173: try_generate panics, and generate with it
TryGeneratePanics ==
    /\ gpc = "loop"
    /\ TriesLeft(gtries)
    /\ \E run \in AttemptOutcomes : \E attempt \in run.attempts :
           /\ run.config = gconfig
           /\ attempt.kind = "panic"
           /\ glast' = attempt
           /\ gencoder' = gencoder \cup attempt.wrote
    /\ gtries' = gtries + 1
    /\ gpc' = "unwound"
    /\ UNCHANGED gconfig
    /\ UNCHANGED exceptGenerate

\* line 173: try_generate does not return
TryGenerateHangs ==
    /\ gpc = "loop"
    /\ TriesLeft(gtries)
    /\ \E run \in AttemptOutcomes : \E attempt \in run.attempts :
           /\ run.config = gconfig
           /\ attempt.kind = "hang"
           /\ glast' = attempt
           /\ gencoder' = gencoder \cup attempt.wrote
    /\ gtries' = gtries + 1
    /\ gpc' = "hung"
    /\ UNCHANGED gconfig
    /\ UNCHANGED exceptGenerate

\* lines 178-181: the loop is over, panic
GenerateExhausted ==
    /\ gpc = "loop"
    /\ ~TriesLeft(gtries)
    /\ gpc' = "panicked"
    /\ UNCHANGED <<gconfig, gtries, glast, gencoder>>
    /\ UNCHANGED exceptGenerate

NextGenerate ==
    \/ TryGenerateNone
    \/ TryGenerateSome
    \/ TryGeneratePanics
    \/ TryGenerateHangs
    \/ GenerateExhausted

SpecGenerate == InitGenerate /\ [][NextGenerate]_vars

-----------------------------------------------------------------------------
(* Claims about try_generate and generate *)

\* C6: the encoder is written only by an attempt that succeeds: whenever
\* rooms have been written, the attempt that wrote them returned Some and
\* generate returned.
C6_NoWritesOnFailure ==
    gencoder # {} => (glast.kind = "some" /\ gpc = "returned")

\* C7: generate starts at most MAX_GENERATE_TRIES attempts; it returns only
\* from an attempt that succeeded and starts no attempt after it; it panics
\* only after MAX_GENERATE_TRIES attempts of which none succeeded, and after
\* that many failures it does nothing but panic.
C7_BoundedRetry ==
    /\ [](/\ gtries <= MAX_GENERATE_TRIES
          /\ gpc = "returned" => glast.kind = "some"
          /\ gpc = "loop" => glast.kind \in {"idle", "none"}
          /\ gpc = "panicked" =>
                 gtries = MAX_GENERATE_TRIES /\ glast.kind = "none")
    /\ [][/\ glast.kind = "some" => gtries' = gtries
          /\ (gpc = "loop" /\ gtries = MAX_GENERATE_TRIES) =>
                 (gpc' = "panicked" /\ gtries' = gtries)]_vars

\* every one of the 200 attempts failed and generate panicked
C7_Witness ==
    /\ gpc = "panicked"
    /\ gtries = 200
    /\ glast.kind = "none"
    /\ gencoder = {}

====
